---- MODULE Spec2Model ----
(***************************************************************************)
(* Model of 亿通行交通费发票整理.py: the three PDF parsing functions        *)
(* (get_invoice_number_from_pdf, get_total_from_invoice_definitive,        *)
(* get_trip_data_definitive) and the reconciliation loop of main.          *)
(*                                                                         *)
(* Text is modelled character by character: a string is a sequence of      *)
(* one-character symbols.  ASCII characters stand for themselves; a CJK    *)
(* character is written as its pinyin name in lower case:                  *)
(*   "nian" 年  "yue" 月  "ri" 日  "yuan" 元  "yuan2" 圆  "zheng" 整         *)
(*   "he" 合  "ji" 计  "fa" 发  "piao" 票  "hao" 号  "ma" 码  "fwcolon" ：    *)
(*   "xing" 行  "cheng" 程  "zhan" 站  "dian" 点  "jin" 金  "e" 额           *)
(*   "jia" 甲  "yi" 乙 (any other CJK text)   "nl" is the newline.         *)
(* The regular expressions of the source are operators over such           *)
(* sequences, written from the regex semantics (leftmost match, greedy     *)
(* quantifiers).                                                           *)
(*                                                                         *)
(* Amounts: every float of the program is float(s) of a string with        *)
(* exactly two fraction digits, or 0.0, so it is represented by its number *)
(* of cents.  The one float operation whose rounding decides a branch,     *)
(* abs(a - b) < 0.01, is modelled with the IEEE-754 representation errors  *)
(* of the operands (FloatErr).                                             *)
(***************************************************************************)
EXTENDS Integers, Sequences, FiniteSets, TLC

----------------------------------------------------------------------------
(* Characters and character classes                                        *)

Digits == {"0", "1", "2", "3", "4", "5", "6", "7", "8", "9"}

\* \s of the re module, restricted to the white space the model's texts hold
SpaceChars == {" ", "nl"}

\* [A-Z0-9]
UpperAlnum == Digits \cup {"A", "I", "N", "O", "V"}

\* [\d,]
DigitComma == Digits \cup {","}

\* [\d:-]
DigitColonDash == Digits \cup {":", "-"}

DigitVal(c) ==
    CASE c = "0" -> 0 [] c = "1" -> 1 [] c = "2" -> 2 [] c = "3" -> 3
      [] c = "4" -> 4 [] c = "5" -> 5 [] c = "6" -> 6 [] c = "7" -> 7
      [] c = "8" -> 8 [] c = "9" -> 9

Min(a, b) == IF a <= b THEN a ELSE b

\* F(e), with e evaluated once and F applied to its value
With(e, F(_)) == CHOOSE r \in {F(x) : x \in {e}} : TRUE

Abs(x) == IF x < 0 THEN -x ELSE x

\* the length of the longest run of characters of class C that starts at s[i]
RECURSIVE RunLen(_, _, _)
RunLen(s, i, C) ==
    IF i >= 1 /\ i <= Len(s) /\ s[i] \in C THEN 1 + RunLen(s, i + 1, C) ELSE 0

\* the literal lit occurs in s at position i
LitAt(s, i, lit) ==
    /\ i >= 1
    /\ i + Len(lit) - 1 <= Len(s)
    /\ SubSeq(s, i, i + Len(lit) - 1) = lit

\* s[i] exists and is in class C
CharIn(s, i, C) == i >= 1 /\ i <= Len(s) /\ s[i] \in C

\* Python's "sub in s" for strings
Contains(s, sub) == \E t \in {s} : \E i \in 1..(Len(t) + 1) : LitAt(t, i, sub)

\* the length of the longest run of characters of class C that ends at s[i]
RECURSIVE RunLenBack(_, _, _)
RunLenBack(s, i, C) ==
    IF i >= 1 /\ i <= Len(s) /\ s[i] \in C THEN 1 + RunLenBack(s, i - 1, C) ELSE 0

\* str.strip()
LStrip(s) == SubSeq(s, 1 + RunLen(s, 1, SpaceChars), Len(s))

RStrip(s) == SubSeq(s, 1, Len(s) - RunLenBack(s, Len(s), SpaceChars))

Strip(s) == With(s, LAMBDA t : With(LStrip(t), RStrip))

\* the position after the first newline of s at or after i; Len(s) + 2 if there is none
RECURSIVE AfterNewline(_, _)
AfterNewline(s, i) ==
    IF i > Len(s) THEN Len(s) + 2
    ELSE IF s[i] = "nl" THEN i + 1
    ELSE AfterNewline(s, i + 1)

\* the pieces of s from position i on
RECURSIVE SplitFrom(_, _)
SplitFrom(s, i) ==
    With(AfterNewline(s, i),
         LAMBDA next : IF next > Len(s) + 1 THEN <<SubSeq(s, i, Len(s))>>
                       ELSE <<SubSeq(s, i, next - 2)>> \o SplitFrom(s, next))

\* str.split('\n')
SplitLines(s) == With(s, LAMBDA t : SplitFrom(t, 1))

\* sep.join(parts)
RECURSIVE Join(_, _)
Join(parts, sep) ==
    IF parts = <<>> THEN <<>>
    ELSE IF Len(parts) = 1 THEN parts[1]
    ELSE parts[1] \o sep \o Join(Tail(parts), sep)

\* the concatenation of a sequence of strings
RECURSIVE Concat(_)
Concat(parts) == IF parts = <<>> THEN <<>> ELSE Head(parts) \o Concat(Tail(parts))

\* float(s.replace(',', '')) of a match of [\d,]+\.\d{2} or \d+\.\d{2}, in cents:
\* with exactly two fraction digits the value in cents is the number its digits spell
RECURSIVE DigitsValue(_, _)
DigitsValue(s, n) ==
    IF n = 0 THEN 0
    ELSE IF s[n] \in Digits THEN 10 * DigitsValue(s, n - 1) + DigitVal(s[n])
    ELSE DigitsValue(s, n - 1)

ParseCents(s) == With(s, LAMBDA t : DigitsValue(t, Len(t)))

\* int(s) of a string of decimal digits
IntOf(s) == With(s, LAMBDA t : DigitsValue(t, Len(t)))

----------------------------------------------------------------------------
(* Regular expressions.  A match is [from, to], positions in s, or NoMatch *)

NoMatch == [from |-> 0, to |-> 0]

Matched(m) == m.from >= 1

Group(s, m) == SubSeq(s, m.from, m.to)

\* the leftmost match among those tried at the positions lo..hi, At(i) being the
\* match tried at i
Leftmost(lo, hi, At(_)) ==
    With({i \in lo..hi : Matched(At(i))}, LAMBDA hits :
        IF hits = {} THEN NoMatch
        ELSE At(CHOOSE i \in hits : \A j \in hits : i <= j))

\* ([\d,]+\.\d{2}) with class C = [\d,], or (\d+\.\d{2}) with C = \d, tried at i.
\* The run is greedy and '.' is outside C, so a shorter run can never succeed.
AmountAt(s, i, C) ==
    LET n == RunLen(s, i, C)
    IN  IF /\ n >= 1
           /\ CharIn(s, i + n, {"."})
           /\ CharIn(s, i + n + 1, Digits)
           /\ CharIn(s, i + n + 2, Digits)
        THEN [from |-> i, to |-> i + n + 2]
        ELSE NoMatch

\* re.search(r'([\d,]+\.\d{2})', s)
SearchCommaAmount(s) ==
    With(s, LAMBDA t : Leftmost(1, Len(t), LAMBDA i : AmountAt(t, i, DigitComma)))

\* re.search(r'(\d+\.\d{2})', s)
SearchAmount(s) ==
    With(s, LAMBDA t : Leftmost(1, Len(t), LAMBDA i : AmountAt(t, i, Digits)))

\* \d{1,2} followed by the character c, tried at i: the number of digits taken, or 0
OneOrTwoDigitsThen(s, i, c) ==
    IF CharIn(s, i, Digits) /\ CharIn(s, i + 1, Digits) /\ CharIn(s, i + 2, {c}) THEN 2
    ELSE IF CharIn(s, i, Digits) /\ CharIn(s, i + 1, {c}) THEN 1
    ELSE 0

\* (\d{4}年\d{1,2}月\d{1,2}日) tried at i
DateAt(s, i) ==
    LET m == OneOrTwoDigitsThen(s, i + 5, "yue")
        d == OneOrTwoDigitsThen(s, i + 5 + m + 1, "ri")
    IN  IF /\ \A j \in i..(i + 3) : CharIn(s, j, Digits)
           /\ CharIn(s, i + 4, {"nian"})
           /\ m >= 1
           /\ d >= 1
        THEN [from |-> i, to |-> i + 5 + m + 1 + d]
        ELSE NoMatch

\* re.search(r'(\d{4}年\d{1,2}月\d{1,2}日)', s)
SearchDate(s) == With(s, LAMBDA t : Leftmost(1, Len(t), LAMBDA i : DateAt(t, i)))

\* \d{1,2}:\d{2}-\d{1,2}:\d{2} tried at i: the position after the match, or 0
TimeRangeAt(s, i) ==
    LET a == OneOrTwoDigitsThen(s, i, ":")
        j == i + a + 1
        b == OneOrTwoDigitsThen(s, j + 3, ":")
        k == j + 3 + b + 1
    IN  IF /\ a >= 1
           /\ CharIn(s, j, Digits) /\ CharIn(s, j + 1, Digits)
           /\ CharIn(s, j + 2, {"-"})
           /\ b >= 1
           /\ CharIn(s, k, Digits) /\ CharIn(s, k + 1, Digits)
        THEN k + 2
        ELSE 0

\* re.search(r'\d{1,2}:\d{2}-\d{1,2}:\d{2}', s) is not None
SearchTimeRange(s) == \E t \in {s} : \E i \in 1..Len(t) : TimeRangeAt(t, i) > 0

\* $ matches at position j: at the end of s, or before a newline that ends s
AtEnd(s, j) == j = Len(s) + 1 \/ (j = Len(s) /\ s[j] = "nl")

\* every character from i to the end of s is white space
AllSpaceFrom(s, i) == \A j \in i..Len(s) : s[j] \in SpaceChars

\* re.match(r'^\d+\s*$', s) is not None
IsSequenceLine(s) ==
    \E t \in {s} : \E n \in {RunLen(t, 1, Digits)} : n >= 1 /\ AllSpaceFrom(t, n + 1)

\* \s*\d+\.\d{2}\s*$ tried at i
TrailingAmountAt(s, i) ==
    LET sp == RunLen(s, i, SpaceChars)
        m == AmountAt(s, i + sp, Digits)
    IN  Matched(m) /\ AllSpaceFrom(s, m.to + 1)

\* re.sub(r'\s*\d+\.\d{2}\s*$', '', s): s without its leftmost match
StripTrailingAmount(s) ==
    With(s, LAMBDA t :
        With({i \in 1..Len(t) : TrailingAmountAt(t, i)}, LAMBDA hits :
            IF hits = {} THEN t
            ELSE SubSeq(t, 1, (CHOOSE i \in hits : \A j \in hits : i <= j) - 1)))

----------------------------------------------------------------------------
(* get_invoice_number_from_pdf: the patterns of lines 19-25                *)

\* C{lo,hi} tried at k: greedy, at most hi characters of class C, at least lo
BoundedRunAt(s, k, C, lo, hi) ==
    LET n == RunLen(s, k, C)
    IN  IF n >= lo THEN [from |-> k, to |-> k + Min(n, hi) - 1] ELSE NoMatch

\* label[：:]\s*([A-Z0-9]{8,20}) tried at i: the group
LabelledNumberAt(s, i, label) ==
    LET c == i + Len(label)
    IN  IF LitAt(s, i, label) /\ CharIn(s, c, {":", "fwcolon"})
        THEN BoundedRunAt(s, c + 1 + RunLen(s, c + 1, SpaceChars), UpperAlnum, 8, 20)
        ELSE NoMatch

\* NO\.?\s*([A-Z0-9]{8,20}) tried at i: the group
NoNumberAt(s, i) ==
    LET d == IF CharIn(s, i + 2, {"."}) THEN i + 3 ELSE i + 2
    IN  IF LitAt(s, i, <<"N", "O">>)
        THEN BoundedRunAt(s, d + RunLen(s, d, SpaceChars), UpperAlnum, 8, 20)
        ELSE NoMatch

\* the p-th entry of the list patterns (lines 19-25), tried at i
PatternAt(p, s, i) ==
    CASE p = 1 -> LabelledNumberAt(s, i, <<"fa", "piao", "hao", "ma">>)
      [] p = 2 -> LabelledNumberAt(s, i, <<"fa", "piao", "hao">>)
      [] p = 3 -> NoNumberAt(s, i)
      [] p = 4 -> BoundedRunAt(s, i, Digits, 18, 20)
      [] p = 5 -> BoundedRunAt(s, i, Digits, 8, 12)

Patterns == 1..5

\* re.findall(patterns[p], s): the groups of the non-overlapping matches, left to right
RECURSIVE FindAllFrom(_, _, _)
FindAllFrom(p, s, i) ==
    With(Leftmost(i, Len(s), LAMBDA j : PatternAt(p, s, j)), LAMBDA m :
        IF Matched(m) THEN <<Group(s, m)>> \o FindAllFrom(p, s, m.to + 1) ELSE <<>>)

FindAll(p, s) == With(s, LAMBDA t : FindAllFrom(p, t, 1))

\* "未知发票号码"
UnknownInvoiceNumber == <<"wei", "zhi", "fa", "piao", "hao", "ma">>

\* "未找到发票"
InvoiceNotFound == <<"wei", "zhao", "dao", "fa", "piao">>

\* len(match) == 18 and match.startswith('91')   (line 32)
IsCreditCode(match) == Len(match) = 18 /\ match[1] = "9" /\ match[2] = "1"

\* lines 31-36: the first match that is not a credit code, else the sentinel
RECURSIVE FirstNonCredit(_)
FirstNonCredit(matches) ==
    IF matches = <<>> THEN UnknownInvoiceNumber
    ELSE IF IsCreditCode(Head(matches)) THEN FirstNonCredit(Tail(matches))
    ELSE Head(matches)

\* a search that goes on to the next pattern when every match is a credit code
RECURSIVE MatchPatternsFallThrough(_, _)
MatchPatternsFallThrough(text, p) ==
    IF p \notin Patterns THEN UnknownInvoiceNumber
    ELSE With(FirstNonCredit(FindAll(p, text)),
              LAMBDA number : IF number # UnknownInvoiceNumber THEN number
                              ELSE MatchPatternsFallThrough(text, p + 1))

\* lines 27-36 and 41, from pattern p on
RECURSIVE MatchPatternsFrom(_, _)
MatchPatternsFrom(text, p) ==
    IF p \notin Patterns THEN UnknownInvoiceNumber
    ELSE With(FindAll(p, text),
              LAMBDA matches : IF matches # <<>> THEN FirstNonCredit(matches)
                               ELSE MatchPatternsFrom(text, p + 1))

MatchPatterns(text) == MatchPatternsFrom(text, 1)

----------------------------------------------------------------------------
(* get_trip_data_definitive: records, the strict record pattern, one       *)
(* non-bus block                                                           *)

\* the dict of lines 136-141, 153-158, 169-174, 201, 220, 250
TripRecord(date, departure, amount) ==
    [date |-> date, departure |-> departure, destination |-> <<>>, amount |-> amount]

\* r'合计\s*([\d,]+\.\d{2})\s*元' matched at position i: the group   (line 78)
SummaryAt(s, i) ==
    LET a == i + 2 + RunLen(s, i + 2, SpaceChars)
        m == AmountAt(s, a, DigitComma)
    IN  IF /\ LitAt(s, i, <<"he", "ji">>)
           /\ Matched(m)
           /\ CharIn(s, m.to + 1 + RunLen(s, m.to + 1, SpaceChars), {"yuan"})
        THEN m
        ELSE NoMatch

\* re.search(r'合计\s*([\d,]+\.\d{2})\s*元', s): the group   (line 78)
SearchSummary(s) == With(s, LAMBDA t : Leftmost(1, Len(t), LAMBDA i : SummaryAt(t, i)))

\* '行程站点' in s and '金额(元)' in s   (line 83)
HasBusFormat(s) ==
    /\ Contains(s, <<"xing", "cheng", "zhan", "dian">>)
    /\ Contains(s, <<"jin", "e", "(", "yuan", ")">>)

\* re.match(r'^\d+\s+\d{4}年', s) is not None   (line 239)
StartsRecord(s) ==
    \E t \in {s} : \E n \in {RunLen(t, 1, Digits)} : \E sp \in {RunLen(t, 1 + n, SpaceChars)} :
        LET y == 1 + n + sp
        IN  /\ n >= 1
            /\ sp >= 1
            /\ \A j \in y..(y + 3) : CharIn(t, j, Digits)
            /\ CharIn(t, y + 4, {"nian"})

\* \s+([\d,]+\.\d{2})$ tried at j: the amount group
TailAmountAt(s, j) ==
    With(RunLen(s, j, SpaceChars), LAMBDA sp :
        With(AmountAt(s, j + sp, DigitComma), LAMBDA m :
            IF sp >= 1 /\ Matched(m) /\ AtEnd(s, m.to + 1) THEN m ELSE NoMatch))

\* the ends e of a group 2 that starts at st: (.+?) takes no newline, and the rest
\* of the pattern matches after e
StationEnds(s, st) ==
    {e \in st..Len(s) : /\ \A j \in st..e : s[j] # "nl"
                        /\ Matched(TailAmountAt(s, e + 1))}

NoTripLine == [ok |-> FALSE, date |-> <<>>, station |-> <<>>, amount |-> <<>>]

\* trip_line_pattern.match(s) (lines 196 and 244):
\*   ^\d+\s+(\d{4}年\d{1,2}月\d{1,2}日)\s+[\d:-]+\s+(.+?)\s+([\d,]+\.\d{2})$
\* [ok, date, station, amount].  n, sp1, dm, sp2, tn, sp3 are what \d+, \s+, the
\* date, \s+, [\d:-]+ and \s+ take; the \s+ before (.+?) is greedy and gives
\* white space back only when no match exists otherwise; (.+?) is lazy.
TripLineMatch(s) ==
    With(s, LAMBDA line :
    With(RunLen(line, 1, Digits), LAMBDA n :
    With(RunLen(line, 1 + n, SpaceChars), LAMBDA sp1 :
    With(DateAt(line, 1 + n + sp1), LAMBDA dm :
    With(RunLen(line, dm.to + 1, SpaceChars), LAMBDA sp2 :
    With(RunLen(line, dm.to + 1 + sp2, DigitColonDash), LAMBDA tn :
    With(dm.to + 1 + sp2 + tn, LAMBDA q :
    With(RunLen(line, q, SpaceChars), LAMBDA sp3 :
    With({q + k : k \in {k \in 1..sp3 : StationEnds(line, q + k) # {}}}, LAMBDA starts :
        IF /\ n >= 1 /\ sp1 >= 1 /\ Matched(dm) /\ sp2 >= 1 /\ tn >= 1 /\ sp3 >= 1
           /\ starts # {}
        THEN With(CHOOSE x \in starts : \A y \in starts : y <= x, LAMBDA st :
             With(CHOOSE x \in StationEnds(line, st) :
                      \A y \in StationEnds(line, st) : x <= y, LAMBDA e :
                 [ok |-> TRUE, date |-> Group(line, dm), station |-> SubSeq(line, st, e),
                  amount |-> Group(line, TailAmountAt(line, e + 1))]))
        ELSE NoTripLine)))))))))

\* lines 197-201 and 246-250: the record of a line that matches trip_line_pattern
TripLineRecords(s) ==
    With(TripLineMatch(s), LAMBDA m :
        IF m.ok THEN <<TripRecord(m.date, m.station, ParseCents(m.amount))>> ELSE <<>>)

\* str.isdigit()
IsDigitString(s) == \E t \in {s} : t # <<>> /\ \A j \in 1..Len(t) : t[j] \in Digits

\* re.match(r'[\d:-]+$', s) is not None
IsTimeLikeLine(s) ==
    \E t \in {s} : \E n \in {RunLen(t, 1, DigitColonDash)} : n >= 1 /\ AtEnd(t, n + 1)

HasAmount(s) == Matched(SearchAmount(s))

\* lines 183-224 for one block: the records the block appends to trips
NonBusBlockRecords(block4) ==
    With(Strip(block4), LAMBDA block_text :
        IF /\ Contains(block_text, <<"nian">>)
           /\ Contains(block_text, <<"yue">>)
           /\ Contains(block_text, <<"ri">>)
           /\ HasAmount(block_text)
        THEN With(SplitLines(block_text), LAMBDA lines :
             With(SelectSeq(lines, HasAmount), LAMBDA amount_line :
             With(Head(SelectSeq(lines, LAMBDA l : Contains(l, <<"nian">>))), LAMBDA date_str :
                 LET last == amount_line[Len(amount_line)]
                     amount == ParseCents(Group(last, SearchAmount(last)))
                     IsStation(l) == /\ ~Contains(l, date_str)
                                     /\ ~HasAmount(l)
                                     /\ ~IsDigitString(l)
                                     /\ ~IsTimeLikeLine(l)
                     station_info == Join(SelectSeq(lines, IsStation), <<" ">>)
                 IN  IF Len(lines) < 3 THEN <<>>
                     ELSE IF Len(lines) = 1 THEN TripLineRecords(lines[1])
                     ELSE IF amount_line = <<>> THEN <<>>
                     ELSE <<TripRecord(date_str, station_info, amount)>>)))
        ELSE <<>>)

\* lines 234-250: merge the raw lines into logical records and parse each
RECURSIVE MergeLines(_, _)
MergeLines(raw_lines, merged_lines) ==
    IF raw_lines = <<>> THEN merged_lines
    ELSE With(Strip(Head(raw_lines)), LAMBDA line :
         With(IF line = <<>> THEN merged_lines
              ELSE IF StartsRecord(line) THEN Append(merged_lines, line)
              ELSE IF merged_lines # <<>>
                   THEN [merged_lines EXCEPT ![Len(merged_lines)] = @ \o <<" ">> \o line]
              ELSE merged_lines,
              LAMBDA merged : With(Tail(raw_lines), LAMBDA rest : MergeLines(rest, merged))))

RECURSIVE ParseMerged(_)
ParseMerged(merged_lines) ==
    IF merged_lines = <<>> THEN <<>>
    ELSE TripLineRecords(Strip(Head(merged_lines))) \o ParseMerged(Tail(merged_lines))

FallbackRecords(pypdf_text) ==
    With(SplitLines(pypdf_text), LAMBDA raw_lines :
        With(MergeLines(raw_lines, <<>>), ParseMerged))

----------------------------------------------------------------------------
(* Floats.  float("15.01") is the double nearest to 15.01, not 15.01.      *)
(* FloatErr(n) is the representation error of the double x_n nearest to    *)
(* n/100, in units of 1/(100 * 2^59):                                      *)
(*      x_n = n/100 + FloatErr(n) / (100 * 2^59)                           *)
(* (the values are those of CPython's float on IEEE-754 binary64, for the  *)
(* amounts the documents of this model hold).                              *)

FloatErr(n) ==
    CASE n = 0 -> 0
      [] n = 1 -> 12
      [] n = 1500 -> 0
      [] n = 1501 -> -12288
      [] n = 3000 -> 0
      [] n = 3001 -> 90112

\* abs(a - b) < 0.01 on doubles (lines 303 and 356), a and b in cents.
\* Equal amounts are the same double.  Amounts one cent apart are within a
\* factor of two of each other, so their difference is computed exactly and is
\* 0.01 + (FloatErr(hi) - FloatErr(lo)) / (100 * 2^59), compared with the double
\* 0.01 = x_1.  Amounts two or more cents apart differ by at least 0.02 less one
\* rounding error.
FloatAbsDiffBelowCent(a, b) ==
    LET hi == IF a >= b THEN a ELSE b
        lo == IF a >= b THEN b ELSE a
    IN  IF hi = lo THEN TRUE
        ELSE IF hi - lo >= 2 THEN FALSE
        ELSE FloatErr(hi) - FloatErr(lo) < FloatErr(1)

DigitChar(d) ==
    CASE d = 0 -> "0" [] d = 1 -> "1" [] d = 2 -> "2" [] d = 3 -> "3" [] d = 4 -> "4"
      [] d = 5 -> "5" [] d = 6 -> "6" [] d = 7 -> "7" [] d = 8 -> "8" [] d = 9 -> "9"

\* str(n) of a natural number
RECURSIVE NatStr(_)
NatStr(n) == IF n < 10 THEN <<DigitChar(n)>> ELSE NatStr(n \div 10) \o <<DigitChar(n % 10)>>

\* f"{x:.2f}" of a float that is an amount or a difference of two amounts, in cents:
\* the float is within 10^-9 of c/100, so it rounds to c cents
Format2f(c) ==
    (IF c < 0 THEN <<"-">> ELSE <<>>)
        \o NatStr(Abs(c) \div 100) \o <<".">>
        \o <<DigitChar((Abs(c) % 100) \div 10), DigitChar(Abs(c) % 10)>>

\* "匹配"
StatusMatched == <<"pi", "pei">>

\* f"不匹配 (差额: {d:.2f})"
StatusMismatched(d) ==
    <<"bu", "pi", "pei", " ", "(", "cha", "e", ":", " ">> \o Format2f(d) \o <<")">>

\* lines 303-306
MatchStatus(trip_total_summary, invoice_total) ==
    IF FloatAbsDiffBelowCent(trip_total_summary, invoice_total)
    THEN StatusMatched
    ELSE StatusMismatched(trip_total_summary - invoice_total)

----------------------------------------------------------------------------
(* The bus-layout scan, one iteration of the while loop of lines 102-177   *)

\* a local variable that no assignment has bound yet
Unbound == <<"UNBOUND">>

\* One iteration at cursor i (0-based, as in the source) over full_text_lines,
\* with station_line1 as the earlier iterations left it.
\* [raised, i, records, station_line1]: whether the iteration raised
\* UnboundLocalError, the cursor after it, the records it appended to trips and
\* the value of station_line1 after it.
BusStep(full_text_lines, i, station_line1) ==
    LET n == Len(full_text_lines)
        At(k) == full_text_lines[k + 1]
        date_match == SearchDate(At(i + 1))
        date_str == Group(At(i + 1), date_match)
        time_match == SearchTimeRange(At(i + 2))
        \* line 124 assigns station_line1 only under time_match and i + 3 < n
        sl1 == IF time_match /\ i + 3 < n THEN At(i + 3) ELSE station_line1
        Skip(sl) == [raised |-> FALSE, i |-> i + 1, records |-> <<>>, station_line1 |-> sl]
        Emit(by, dep, amt_line, sl) ==
            [raised |-> FALSE, i |-> i + by,
             records |-> <<TripRecord(date_str, dep,
                               ParseCents(Group(amt_line, SearchAmount(amt_line))))>>,
             station_line1 |-> sl]
    IN  IF ~IsSequenceLine(At(i)) THEN Skip(station_line1)              \* 106
        ELSE IF ~(i + 1 < n) THEN Skip(station_line1)                   \* 108
        ELSE IF ~Matched(date_match) THEN Skip(station_line1)           \* 112
        ELSE IF ~(i + 2 < n) THEN Skip(station_line1)                   \* 116
        ELSE IF time_match /\ i + 4 < n /\ HasAmount(At(i + 4))         \* 120-131
             THEN Emit(5, At(i + 3), At(i + 4), sl1)                    \* 133-143
        ELSE IF /\ time_match /\ i + 4 < n /\ i + 5 < n                 \* 144
                /\ HasAmount(At(i + 5))                                 \* 148
             THEN Emit(6, At(i + 3) \o At(i + 4), At(i + 5), sl1)       \* 150-160
        ELSE IF sl1 = Unbound                                           \* 163
             THEN [raised |-> TRUE, i |-> i, records |-> <<>>, station_line1 |-> sl1]
        ELSE IF HasAmount(sl1)                                          \* 164
             THEN Emit(4, Strip(StripTrailingAmount(sl1)), sl1, sl1)    \* 165-176
        ELSE Skip(sl1)                                                  \* 177

----------------------------------------------------------------------------
(* Strings in order, and list.sort(key=...)                                *)

\* ord(c)
CodePoint(c) ==
    CASE c = "0" -> 48 [] c = "1" -> 49 [] c = "2" -> 50 [] c = "3" -> 51
      [] c = "4" -> 52 [] c = "5" -> 53 [] c = "6" -> 54 [] c = "7" -> 55
      [] c = "8" -> 56 [] c = "9" -> 57 [] c = " " -> 32 [] c = "." -> 46
      [] c = "," -> 44 [] c = ":" -> 58 [] c = "-" -> 45 [] c = "(" -> 40
      [] c = ")" -> 41 [] c = "/" -> 47 [] c = "A" -> 65 [] c = "I" -> 73
      [] c = "N" -> 78 [] c = "O" -> 79 [] c = "V" -> 86 [] c = "t" -> 116
      [] c = "r" -> 114 [] c = "i" -> 105 [] c = "p" -> 112 [] c = "d" -> 100
      [] c = "f" -> 102 [] c = "nian" -> 24180 [] c = "yue" -> 26376 [] c = "ri" -> 26085
      [] c = "yuan" -> 20803 [] c = "yuan2" -> 22278 [] c = "zheng" -> 25972 [] c = "he" -> 21512
      [] c = "ji" -> 35745 [] c = "fa" -> 21457 [] c = "piao" -> 31080 [] c = "hao" -> 21495
      [] c = "ma" -> 30721 [] c = "fwcolon" -> 65306 [] c = "xing" -> 34892 [] c = "cheng" -> 31243
      [] c = "zhan" -> 31449 [] c = "dian" -> 28857 [] c = "jin" -> 37329 [] c = "e" -> 39069
      [] c = "jia" -> 30002 [] c = "yi" -> 20057 [] c = "nl" -> 10 [] c = "wei" -> 26410
      [] c = "zhi" -> 30693 [] c = "zhao" -> 25214 [] c = "dao" -> 21040 [] c = "pi" -> 21305
      [] c = "pei" -> 37197 [] c = "bu" -> 19981 [] c = "cha" -> 24046 [] c = "jian" -> 35265
      [] c = "zhai" -> 25688 [] c = "yao" -> 35201 [] c = "lai" -> 26469 [] c = "zi" -> 33258
      [] c = "jie" -> 35299 [] c = "xi" -> 26512 [] c = "shi" -> 22833 [] c = "bai" -> 36133
      [] c = "dai" -> 20195

\* a < b for Python strings
RECURSIVE StrLess(_, _)
StrLess(a, b) ==
    IF b = <<>> THEN FALSE
    ELSE IF a = <<>> THEN TRUE
    ELSE IF Head(a) = Head(b) THEN StrLess(Tail(a), Tail(b))
    ELSE CodePoint(Head(a)) < CodePoint(Head(b))

\* trips[a] comes before trips[b] in the sorted list: its date is smaller, or
\* the dates are equal and a < b (the sort is stable)
SortsBefore(trips, a, b) ==
    \/ StrLess(trips[a].date, trips[b].date)
    \/ trips[a].date = trips[b].date /\ a < b

\* all_trips.sort(key=lambda x: x.get('date', ''))   (line 334)
SortByDate(trips) ==
    [r \in 1..Len(trips) |->
        trips[CHOOSE a \in 1..Len(trips) :
                  Cardinality({b \in 1..Len(trips) : SortsBefore(trips, b, a)}) = r - 1]]

\* sum(x[field] for x in seq)
RECURSIVE SumOf(_, _)
SumOf(seq, field) == IF seq = <<>> THEN 0 ELSE Head(seq)[field] + SumOf(Tail(seq), field)

\* the folders in the order of their names as strings
RECURSIVE SortByName(_)
SortByName(dirs) ==
    IF dirs = {} THEN <<>>
    ELSE LET first == CHOOSE d \in dirs : \A o \in dirs : ~StrLess(o.name, d.name)
         IN  <<first>> \o SortByName(dirs \ {first})

\* sorted(dirs, key=lambda x: int(x.name))   (line 272)
RECURSIVE SortByInt(_)
SortByInt(dirs) ==
    IF dirs = {} THEN <<>>
    ELSE LET first == CHOOSE d \in dirs : \A o \in dirs : IntOf(d.name) <= IntOf(o.name)
         IN  <<first>> \o SortByInt(dirs \ {first})

----------------------------------------------------------------------------
(* Documents.  A PDF is [opens, pages, pypdf]: whether fitz.open succeeds,  *)
(* its pages, and what pypdf makes of it.  A page is [text_ok, struct_ok,  *)
(* blocks]: whether page.get_text() and page.get_text("blocks"/"dict")     *)
(* succeed, and its text blocks; a block is the sequence of its lines.     *)

\* block[4] of page.get_text("blocks")
BlockText(block) == Join(block, <<"nl">>) \o <<"nl">>

\* page.get_text()
PageText(p) == Concat([j \in 1..Len(p.blocks) |-> BlockText(p.blocks[j])])

\* lines 12-14 and 73-75: the text of all pages
DocText(pdf) == Concat([j \in 1..Len(pdf.pages) |-> PageText(pdf.pages[j])])

NonEmpty(s) == s # <<>>

\* lines 88-98: the stripped non-empty lines of all blocks of all pages
DictLines(pdf) ==
    With(Concat([j \in 1..Len(pdf.pages) |-> Concat(pdf.pages[j].blocks)]), LAMBDA all :
        SelectSeq([j \in 1..Len(all) |-> Strip(all[j])], NonEmpty))

Page(blocks) == [text_ok |-> TRUE, struct_ok |-> TRUE, blocks |-> blocks]

NoPypdf == [ok |-> TRUE, text |-> <<>>]

Pdf(pages) == [opens |-> TRUE, pages |-> pages, pypdf |-> NoPypdf]

\* a path fitz.open cannot open: a missing or unreadable file
Unopenable == [opens |-> FALSE, pages |-> <<>>, pypdf |-> NoPypdf]

----------------------------------------------------------------------------
(* State                                                                   *)

VARIABLES
    root,                \* the directory ./<directory_name>: [exists, entries]
    pc,                  \* where main is
    invoice_dirs,        \* line 272
    k,                   \* the number of folders the loop of line 280 has finished
    parsed_trips,        \* line 285
    trip_total_summary,  \* line 285
    invoice_total,       \* line 298
    invoice_number,      \* line 301
    comparison_results,  \* line 274
    all_trips,           \* line 275
    report,              \* the file <directory_name>汇总.md
    manifest,            \* the file <directory_name>号码汇总.txt
    message,             \* the final consistency message of lines 356-359
    frame                \* the running call of a parsing function, with its locals

mainVars == <<root, pc, invoice_dirs, k, parsed_trips, trip_total_summary, invoice_total,
              invoice_number, comparison_results, all_trips, report, manifest, message>>

vars == <<root, pc, invoice_dirs, k, parsed_trips, trip_total_summary, invoice_total,
          invoice_number, comparison_results, all_trips, report, manifest, message, frame>>

NoRet == [trips |-> <<>>, summary |-> 0, total |-> 0, number |-> <<>>]

\* no call is running
IdleFrame ==
    [fn |-> "none", pc |-> "idle", pdf |-> Unopenable, handle |-> "none", text |-> <<>>,
     summary_total |-> 0, has_bus_format |-> FALSE, trips |-> <<>>,
     full_text_lines |-> <<>>, i |-> 0, station_line1 |-> Unbound,
     page |-> 0, blk |-> 0, warned |-> FALSE, ret |-> NoRet]

\* the frame of a call fn(pdf_path) at its first statement; handle is the state of
\* the fitz document the call owns: "none", "open" or "closed"; warned is whether
\* the call has printed the warning of its except clause
Call(fn, entry, pdf) == [IdleFrame EXCEPT !.fn = fn, !.pc = entry, !.pdf = pdf]

Running(fn, label) == frame.fn = fn /\ frame.pc = label

Goto(label) == [frame EXCEPT !.pc = label]

----------------------------------------------------------------------------
(* get_invoice_number_from_pdf   (lines 8-41)                              *)

\* line 11: doc = fitz.open(pdf_path)
N_open ==
    /\ Running("number", "N_open")
    /\ frame' = IF frame.pdf.opens
                THEN [frame EXCEPT !.handle = "open", !.pc = "N_read"]
                ELSE Goto("N_except")
    /\ UNCHANGED mainVars

\* lines 12-14: text += page.get_text() for every page
N_read ==
    /\ Running("number", "N_read")
    /\ frame' = IF \A j \in 1..Len(frame.pdf.pages) : frame.pdf.pages[j].text_ok
                THEN [frame EXCEPT !.text = DocText(frame.pdf), !.pc = "N_close"]
                ELSE Goto("N_except")
    /\ UNCHANGED mainVars

\* line 15: doc.close()
N_close ==
    /\ Running("number", "N_close")
    /\ frame' = [frame EXCEPT !.handle = "closed", !.pc = "N_match"]
    /\ UNCHANGED mainVars

\* lines 19-36 and 41
N_match ==
    /\ Running("number", "N_match")
    /\ frame' = [frame EXCEPT !.ret.number = MatchPatterns(frame.text), !.pc = "returned"]
    /\ UNCHANGED mainVars

\* lines 38-41: the handler, then the return of line 41
N_except ==
    /\ Running("number", "N_except")
    /\ frame' = [frame EXCEPT !.warned = TRUE, !.ret.number = UnknownInvoiceNumber,
                              !.pc = "returned"]
    /\ UNCHANGED mainVars

----------------------------------------------------------------------------
(* get_total_from_invoice_definitive   (lines 44-60)                       *)

\* line 47
V_open ==
    /\ Running("total", "V_open")
    /\ frame' = IF frame.pdf.opens
                THEN [frame EXCEPT !.handle = "open", !.page = 1, !.pc = "V_page"]
                ELSE Goto("V_except")
    /\ UNCHANGED mainVars

\* lines 48-49: the next page and its blocks, or the end of the loop
V_page ==
    /\ Running("total", "V_page")
    /\ frame' = IF frame.page > Len(frame.pdf.pages) THEN Goto("V_close")
                ELSE IF ~frame.pdf.pages[frame.page].struct_ok THEN Goto("V_except")
                ELSE [frame EXCEPT !.blk = 1, !.pc = "V_block"]
    /\ UNCHANGED mainVars

\* '圆' in block_text or '整' in block_text   (line 52)
HasTotalMarker(block_text) ==
    Contains(block_text, <<"yuan2">>) \/ Contains(block_text, <<"zheng">>)

\* one block of the page, where a block with a marker ends the search whether
\* it holds an amount or not
V_blockFirstMarkerEnds ==
    /\ Running("total", "V_block")
    /\ LET blocks == frame.pdf.pages[frame.page].blocks
           block_text == BlockText(blocks[frame.blk])
           match == SearchCommaAmount(block_text)
       IN  frame' =
             IF frame.blk > Len(blocks)
             THEN [frame EXCEPT !.page = @ + 1, !.pc = "V_page"]
             ELSE IF HasTotalMarker(block_text)
             THEN [frame EXCEPT !.handle = "closed",
                                !.ret.total = IF Matched(match)
                                              THEN ParseCents(Group(block_text, match))
                                              ELSE 0,
                                !.pc = "returned"]
             ELSE [frame EXCEPT !.blk = @ + 1]
    /\ UNCHANGED mainVars

\* lines 50-56: one block of the page
V_block ==
    /\ Running("total", "V_block")
    /\ LET blocks == frame.pdf.pages[frame.page].blocks
           block_text == BlockText(blocks[frame.blk])
           match == SearchCommaAmount(block_text)
       IN  frame' =
             IF frame.blk > Len(blocks)
             THEN [frame EXCEPT !.page = @ + 1, !.pc = "V_page"]
             ELSE IF HasTotalMarker(block_text) /\ Matched(match)
             THEN [frame EXCEPT !.handle = "closed",
                                !.ret.total = ParseCents(Group(block_text, match)),
                                !.pc = "returned"]
             ELSE [frame EXCEPT !.blk = @ + 1]
    /\ UNCHANGED mainVars

\* lines 57 and 60
V_close ==
    /\ Running("total", "V_close")
    /\ frame' = [frame EXCEPT !.handle = "closed", !.ret.total = 0, !.pc = "returned"]
    /\ UNCHANGED mainVars

\* lines 58-60
V_except ==
    /\ Running("total", "V_except")
    /\ frame' = [frame EXCEPT !.warned = TRUE, !.ret.total = 0, !.pc = "returned"]
    /\ UNCHANGED mainVars

----------------------------------------------------------------------------
(* get_trip_data_definitive   (lines 62-255)                               *)

\* line 72 (trips and summary_total are bound by lines 68-69: see Call)
T_open ==
    /\ Running("trip", "T_open")
    /\ frame' = IF frame.pdf.opens
                THEN [frame EXCEPT !.handle = "open", !.pc = "T_text"]
                ELSE Goto("T_except")
    /\ UNCHANGED mainVars

\* lines 73-75: full_text += page.get_text() for every page
T_text ==
    /\ Running("trip", "T_text")
    /\ frame' = IF \A j \in 1..Len(frame.pdf.pages) : frame.pdf.pages[j].text_ok
                THEN [frame EXCEPT !.text = DocText(frame.pdf), !.pc = "T_summary"]
                ELSE Goto("T_except")
    /\ UNCHANGED mainVars

\* lines 78-80: the summary total of the text, 0.0 when the pattern is absent
SummaryTotal(full_text) ==
    LET summary_match == SearchSummary(full_text)
    IN  IF Matched(summary_match) THEN ParseCents(Group(full_text, summary_match)) ELSE 0

\* lines 78-85: the summary total and the choice of the layout
T_summary ==
    /\ Running("trip", "T_summary")
    /\ frame' = [frame EXCEPT !.summary_total = SummaryTotal(frame.text),
                              !.has_bus_format = HasBusFormat(frame.text),
                              !.page = 1,
                              !.pc = IF HasBusFormat(frame.text) THEN "T_lines" ELSE "T_page"]
    /\ UNCHANGED mainVars

\* lines 88-101: the lines of page.get_text("dict") of every page, and i = 0
T_lines ==
    /\ Running("trip", "T_lines")
    /\ frame' = IF \A j \in 1..Len(frame.pdf.pages) : frame.pdf.pages[j].struct_ok
                THEN [frame EXCEPT !.full_text_lines = DictLines(frame.pdf), !.i = 0,
                                   !.pc = "T_scan"]
                ELSE Goto("T_except")
    /\ UNCHANGED mainVars

\* one iteration whose record is not followed by continue: line 177 runs too
T_scanNoContinue ==
    /\ Running("trip", "T_scan")
    /\ LET r == BusStep(frame.full_text_lines, frame.i, frame.station_line1)
       IN  frame' =
             IF ~(frame.i < Len(frame.full_text_lines)) THEN Goto("T_close")
             ELSE IF r.raised THEN Goto("T_except")
             ELSE [frame EXCEPT !.i = IF r.records # <<>> THEN r.i + 1 ELSE r.i,
                                !.trips = @ \o r.records,
                                !.station_line1 = r.station_line1]
    /\ UNCHANGED mainVars

\* lines 102-177: the loop test and one iteration
T_scan ==
    /\ Running("trip", "T_scan")
    /\ LET r == BusStep(frame.full_text_lines, frame.i, frame.station_line1)
       IN  frame' =
             IF ~(frame.i < Len(frame.full_text_lines)) THEN Goto("T_close")
             ELSE IF r.raised THEN Goto("T_except")
             ELSE [frame EXCEPT !.i = r.i, !.trips = @ \o r.records,
                                !.station_line1 = r.station_line1]
    /\ UNCHANGED mainVars

\* lines 180-181: the next page and its blocks, or the end of the loop
T_page ==
    /\ Running("trip", "T_page")
    /\ frame' = IF frame.page > Len(frame.pdf.pages) THEN Goto("T_close")
                ELSE IF ~frame.pdf.pages[frame.page].struct_ok THEN Goto("T_except")
                ELSE [frame EXCEPT !.blk = 1, !.pc = "T_block"]
    /\ UNCHANGED mainVars

\* lines 182-224: one block of the page.  Nothing in the try of lines 193-220 can
\* raise ValueError or IndexError (every float() gets a regex match, and
\* amount_line[-1] is guarded), so the handler of line 222 is never entered.
T_block ==
    /\ Running("trip", "T_block")
    /\ LET blocks == frame.pdf.pages[frame.page].blocks
       IN  frame' =
             IF frame.blk > Len(blocks)
             THEN [frame EXCEPT !.page = @ + 1, !.pc = "T_page"]
             ELSE [frame EXCEPT !.trips = @ \o NonBusBlockRecords(BlockText(blocks[frame.blk])),
                                !.blk = @ + 1]
    /\ UNCHANGED mainVars

\* line 225
T_close ==
    /\ Running("trip", "T_close")
    /\ frame' = [frame EXCEPT !.handle = "closed", !.pc = "T_fallback"]
    /\ UNCHANGED mainVars

\* a fallback that returns no summary total when it was needed
T_fallbackDropsSummary ==
    /\ Running("trip", "T_fallback")
    /\ frame' =
         IF frame.trips # <<>>
         THEN [frame EXCEPT !.ret.trips = frame.trips, !.ret.summary = frame.summary_total,
                            !.pc = "returned"]
         ELSE IF ~frame.pdf.pypdf.ok THEN Goto("T_except")
         ELSE [frame EXCEPT !.trips = FallbackRecords(frame.pdf.pypdf.text),
                            !.ret.trips = FallbackRecords(frame.pdf.pypdf.text),
                            !.ret.summary = 0,
                            !.pc = "returned"]
    /\ UNCHANGED mainVars

\* lines 227-252: the pypdf fallback when no record was parsed, and the return
T_fallback ==
    /\ Running("trip", "T_fallback")
    /\ frame' =
         IF frame.trips # <<>>
         THEN [frame EXCEPT !.ret.trips = frame.trips, !.ret.summary = frame.summary_total,
                            !.pc = "returned"]
         ELSE IF ~frame.pdf.pypdf.ok THEN Goto("T_except")
         ELSE [frame EXCEPT !.trips = FallbackRecords(frame.pdf.pypdf.text),
                            !.ret.trips = FallbackRecords(frame.pdf.pypdf.text),
                            !.ret.summary = frame.summary_total,
                            !.pc = "returned"]
    /\ UNCHANGED mainVars

\* lines 253-255: return [], 0.0
T_except ==
    /\ Running("trip", "T_except")
    /\ frame' = [frame EXCEPT !.warned = TRUE, !.ret.trips = <<>>, !.ret.summary = 0,
                              !.pc = "returned"]
    /\ UNCHANGED mainVars

----------------------------------------------------------------------------
(* main   (lines 258-359)                                                  *)

\* "见摘要"
SeeSummary == <<"jian", "zhai", "yao">>

\* f"来自 {directory.name}/trip.pdf (解析失败)"
ParseFailedFrom(name) ==
    <<"lai", "zi", " ">> \o name
        \o <<"/", "t", "r", "i", "p", ".", "p", "d", "f", " ", "(", "jie", "xi", "shi", "bai", ")">>

\* lines 267-278: the root directory, the numeric subfolders in numeric order
M_start ==
    /\ pc = "start"
    /\ IF ~root.exists
       THEN /\ pc' = "exit"
            /\ UNCHANGED <<invoice_dirs, comparison_results, all_trips, k>>
       ELSE /\ invoice_dirs' =
                  SortByInt({d \in root.entries : d.is_dir /\ IsDigitString(d.name)})
            /\ comparison_results' = <<>>
            /\ all_trips' = <<>>
            /\ k' = 0
            /\ pc' = "loop"
    /\ UNCHANGED <<root, parsed_trips, trip_total_summary, invoice_total, invoice_number,
                   report, manifest, message, frame>>

\* lines 280-285: the next folder and the call of get_trip_data_definitive
M_loop ==
    /\ pc = "loop"
    /\ IF k < Len(invoice_dirs)
       THEN /\ frame' = Call("trip", "T_open", invoice_dirs[k + 1].trip)
            /\ pc' = "trips"
       ELSE /\ pc' = "report"
            /\ UNCHANGED frame
    /\ UNCHANGED <<root, invoice_dirs, k, parsed_trips, trip_total_summary, invoice_total,
                   invoice_number, comparison_results, all_trips, report, manifest, message>>

\* a folder that adds its placeholder whether records were parsed or not
TripsOfFolderWithPlaceholder(name, trips, summary) ==
    trips \o (IF summary > 0
              THEN <<TripRecord(SeeSummary, ParseFailedFrom(name), summary)>>
              ELSE <<>>)

\* lines 287-296: what the folder adds to all_trips
TripsOfFolder(name, trips, summary) ==
    IF trips # <<>> THEN trips
    ELSE IF summary > 0 THEN <<TripRecord(SeeSummary, ParseFailedFrom(name), summary)>>
    ELSE <<>>

\* lines 285-296: the result of the call, and all_trips
M_trips ==
    /\ pc = "trips"
    /\ frame.pc = "returned"
    /\ parsed_trips' = frame.ret.trips
    /\ trip_total_summary' = frame.ret.summary
    /\ all_trips' = all_trips
           \o TripsOfFolder(invoice_dirs[k + 1].name, frame.ret.trips, frame.ret.summary)
    /\ frame' = IdleFrame
    /\ pc' = "total"
    /\ UNCHANGED <<root, invoice_dirs, k, invoice_total, invoice_number, comparison_results,
                   report, manifest, message>>

\* line 298: the call of get_total_from_invoice_definitive, or 0.0
M_total ==
    /\ pc = "total"
    /\ IF invoice_dirs[k + 1].invoice_exists
       THEN /\ frame' = Call("total", "V_open", invoice_dirs[k + 1].invoice)
            /\ pc' = "total_ret"
            /\ UNCHANGED invoice_total
       ELSE /\ invoice_total' = 0
            /\ pc' = "number"
            /\ UNCHANGED frame
    /\ UNCHANGED <<root, invoice_dirs, k, parsed_trips, trip_total_summary, invoice_number,
                   comparison_results, all_trips, report, manifest, message>>

\* line 298: the result of the call
M_total_ret ==
    /\ pc = "total_ret"
    /\ frame.pc = "returned"
    /\ invoice_total' = frame.ret.total
    /\ frame' = IdleFrame
    /\ pc' = "number"
    /\ UNCHANGED <<root, invoice_dirs, k, parsed_trips, trip_total_summary, invoice_number,
                   comparison_results, all_trips, report, manifest, message>>

\* line 301: the call of get_invoice_number_from_pdf, or "未找到发票"
M_number ==
    /\ pc = "number"
    /\ IF invoice_dirs[k + 1].invoice_exists
       THEN /\ frame' = Call("number", "N_open", invoice_dirs[k + 1].invoice)
            /\ pc' = "number_ret"
            /\ UNCHANGED invoice_number
       ELSE /\ invoice_number' = InvoiceNotFound
            /\ pc' = "status"
            /\ UNCHANGED frame
    /\ UNCHANGED <<root, invoice_dirs, k, parsed_trips, trip_total_summary, invoice_total,
                   comparison_results, all_trips, report, manifest, message>>

\* line 301: the result of the call
M_number_ret ==
    /\ pc = "number_ret"
    /\ frame.pc = "returned"
    /\ invoice_number' = frame.ret.number
    /\ frame' = IdleFrame
    /\ pc' = "status"
    /\ UNCHANGED <<root, invoice_dirs, k, parsed_trips, trip_total_summary, invoice_total,
                   comparison_results, all_trips, report, manifest, message>>

\* lines 303-315: the status and the folder's entry of comparison_results
M_status ==
    /\ pc = "status"
    /\ comparison_results' = Append(comparison_results,
           [dir |-> invoice_dirs[k + 1].name,
            invoice_number |-> invoice_number,
            trip_total |-> trip_total_summary,
            invoice_total |-> invoice_total,
            status |-> MatchStatus(trip_total_summary, invoice_total)])
    /\ k' = k + 1
    /\ pc' = "loop"
    /\ UNCHANGED <<root, invoice_dirs, parsed_trips, trip_total_summary, invoice_total,
                   invoice_number, all_trips, report, manifest, message, frame>>

\* lines 325-326: a row of the first table
SummaryRow(res) ==
    [dir |-> res.dir, invoice_number |-> res.invoice_number,
     trip_total |-> Format2f(res.trip_total), invoice_total |-> Format2f(res.invoice_total),
     status |-> res.status]

\* lines 342-343: a row of the second table
DetailRow(n, trip) ==
    [index |-> NatStr(n), date |-> trip.date, departure |-> trip.departure,
     destination |-> trip.destination, amount |-> Format2f(trip.amount)]

NotWritten == [written |-> FALSE, content |-> <<>>]

\* lines 318-344: the report; all_trips is sorted in place
M_report ==
    /\ pc = "report"
    /\ all_trips' = SortByDate(all_trips)
    /\ report' =
         [written |-> TRUE,
          content |->
            [rows |-> [j \in 1..Len(comparison_results) |-> SummaryRow(comparison_results[j])],
             grand_total_trip |-> Format2f(SumOf(comparison_results, "trip_total")),
             grand_total_invoice |-> Format2f(SumOf(comparison_results, "invoice_total")),
             count |-> NatStr(Len(all_trips)),
             grand_total_detailed |-> Format2f(SumOf(all_trips, "amount")),
             trips |-> [j \in 1..Len(all_trips) |-> DetailRow(j, SortByDate(all_trips)[j])]]]
    /\ pc' = "manifest"
    /\ UNCHANGED <<root, invoice_dirs, k, parsed_trips, trip_total_summary, invoice_total,
                   invoice_number, comparison_results, manifest, message, frame>>

IsListed(res) == res.invoice_number # InvoiceNotFound

\* line 347
ManifestNumbers(results) ==
    LET kept == SelectSeq(results, IsListed)
    IN  [j \in 1..Len(kept) |-> kept[j].invoice_number]

\* lines 347-350: the manifest
M_manifest ==
    /\ pc = "manifest"
    /\ manifest' = [written |-> TRUE,
                    content |-> Join(ManifestNumbers(comparison_results), <<",">>)]
    /\ pc' = "final"
    /\ UNCHANGED <<root, invoice_dirs, k, parsed_trips, trip_total_summary, invoice_total,
                   invoice_number, comparison_results, all_trips, report, message, frame>>

\* lines 352-359: the consistency message.  Both totals are sums of doubles;
\* when they are one cent apart the rounding of the sums decides the comparison
\* with 0.01, and either message can be printed.
M_final ==
    /\ pc = "final"
    /\ LET d == Abs(SumOf(comparison_results, "trip_total") - SumOf(all_trips, "amount"))
       IN  message' \in (IF d = 0 THEN {"match"}
                         ELSE IF d = 1 THEN {"match", "warning"}
                         ELSE {"warning"})
    /\ pc' = "done"
    /\ UNCHANGED <<root, invoice_dirs, k, parsed_trips, trip_total_summary, invoice_total,
                   invoice_number, comparison_results, all_trips, report, manifest, frame>>

----------------------------------------------------------------------------
(* The texts of the documents the specifications start from                *)

\* 1
SeqLine1 == <<"1">>

\* 2
SeqLine2 == <<"2">>

\* 2025年3月5日
DateLine == <<"2", "0", "2", "5", "nian", "3", "yue", "5", "ri">>

\* 2025年12月15日
DateLine2 == <<"2", "0", "2", "5", "nian", "1", "2", "yue", "1", "5", "ri">>

\* 08:15-08:42
TimeLine == <<"0", "8", ":", "1", "5", "-", "0", "8", ":", "4", "2">>

\* 甲站
StationA == <<"jia", "zhan">>

\* 乙站
StationB == <<"yi", "zhan">>

\* 15.00
AmountLine == <<"1", "5", ".", "0", "0">>

\* 30.00
AmountLine30 == <<"3", "0", ".", "0", "0">>

\* 甲站 15.00
StationAmountLine == <<"jia", "zhan", " ", "1", "5", ".", "0", "0">>

\* 行程站点
HeaderStops == <<"xing", "cheng", "zhan", "dian">>

\* 金额(元)
HeaderAmount == <<"jin", "e", "(", "yuan", ")">>

\* 合计 15.00 元
SummaryLine1500 == <<"he", "ji", " ", "1", "5", ".", "0", "0", " ", "yuan">>

\* 合计15.01元
SummaryLine1501 == <<"he", "ji", "1", "5", ".", "0", "1", "yuan">>

\* 合计 30.00 元
SummaryLine3000 == <<"he", "ji", " ", "3", "0", ".", "0", "0", " ", "yuan">>

\* 合计 30.01 元
SummaryLine3001 == <<"he", "ji", " ", "3", "0", ".", "0", "1", " ", "yuan">>

\* 1 2025年3月5日 08:15-08:42 甲站\n乙站 15.00\n
PypdfRecordText == <<"1", " ", "2", "0", "2", "5", "nian", "3", "yue", "5", "ri", " ", "0", "8", ":", "1", "5", "-", "0", "8", ":", "4", "2", " ", "jia", "zhan", "nl", "yi", "zhan", " ", "1", "5", ".", "0", "0", "nl">>

\* 甲站 15.00\n
PypdfOtherText == <<"jia", "zhan", " ", "1", "5", ".", "0", "0", "nl">>

\* 发票号码: INV2025000123456
NumLabelled == <<"fa", "piao", "hao", "ma", ":", " ", "I", "N", "V", "2", "0", "2", "5", "0", "0", "0", "1", "2", "3", "4", "5", "6">>

\* 发票号码：911101081234567890
NumLabelledCredit == <<"fa", "piao", "hao", "ma", "fwcolon", "9", "1", "1", "1", "0", "1", "0", "8", "1", "2", "3", "4", "5", "6", "7", "8", "9", "0">>

\* 发票号码:9111010812345678901
NumLabelled19 == <<"fa", "piao", "hao", "ma", ":", "9", "1", "1", "1", "0", "1", "0", "8", "1", "2", "3", "4", "5", "6", "7", "8", "9", "0", "1">>

\* 发票号: 12345678
NumShortLabel == <<"fa", "piao", "hao", ":", " ", "1", "2", "3", "4", "5", "6", "7", "8">>

\* NO. A1234567
NumNo == <<"N", "O", ".", " ", "A", "1", "2", "3", "4", "5", "6", "7">>

\* 代码 911101081234567890
NumCredit == <<"dai", "ma", " ", "9", "1", "1", "1", "0", "1", "0", "8", "1", "2", "3", "4", "5", "6", "7", "8", "9", "0">>

\* 25112000000012345678
NumTwenty == <<"2", "5", "1", "1", "2", "0", "0", "0", "0", "0", "0", "0", "1", "2", "3", "4", "5", "6", "7", "8">>

\* 191101081234567890
NumEighteen == <<"1", "9", "1", "1", "0", "1", "0", "8", "1", "2", "3", "4", "5", "6", "7", "8", "9", "0">>

\* 12345678
NumEight == <<"1", "2", "3", "4", "5", "6", "7", "8">>

\* 1234567
NumSeven == <<"1", "2", "3", "4", "5", "6", "7">>

\* 圆整 15.00
TotalWords == <<"yuan2", "zheng", " ", "1", "5", ".", "0", "0">>

\* 整 30.00
TotalWords30 == <<"zheng", " ", "3", "0", ".", "0", "0">>

\* 圆整
TotalWordsOnly == <<"yuan2", "zheng">>

\* 整 1,234.56 15.00
TotalComma == <<"zheng", " ", "1", ",", "2", "3", "4", ".", "5", "6", " ", "1", "5", ".", "0", "0">>

\* 甲站
PlainText == <<"jia", "zhan">>

----------------------------------------------------------------------------
(* Bounds of the model                                                     *)

\* the lines after the bus-layout groups of a scanned trip statement
MaxJunk == 4

\* the bus-layout groups of a trip statement made of groups only
MaxGroups == 3

\* the blocks of a trip statement of the second family
MaxBlocks == 3

\* the blocks of an invoice whose number is extracted
MaxFrags == 2

\* the blocks and page boundaries of an invoice whose total is extracted
MaxItems == 3

\* the sequences over S of length at most n
SeqsUpTo(S, n) == UNION {[1..m -> S] : m \in 0..n}

----------------------------------------------------------------------------
(* The documents get_trip_data_definitive starts from                      *)

\* a bus-layout record whose stations take one line, and one whose stations take two
Group5 == <<SeqLine1, DateLine, TimeLine, StationA, AmountLine>>

Group6 == <<SeqLine2, DateLine2, TimeLine, StationA, StationB, AmountLine30>>

Groups == {Group5, Group6}

JunkLines == {SeqLine2, DateLine, TimeLine, StationA, StationAmountLine}

HeaderBlock == <<HeaderStops, HeaderAmount>>

\* a bus-layout trip statement: the header, the lines of the table, the summary
BusDoc(body) == Pdf(<<Page(<<HeaderBlock, body, <<SummaryLine1500>>>>)>>)

\* bus-layout statements: at most one well-formed group, then arbitrary lines
BusScanDocs ==
    {BusDoc(Concat(gs) \o junk) : gs \in SeqsUpTo(Groups, 1), junk \in SeqsUpTo(JunkLines, MaxJunk)}

\* bus-layout statements made of well-formed groups only
BackToBackDocs == {BusDoc(Concat(gs)) : gs \in SeqsUpTo(Groups, MaxGroups)}

\* the blocks of the second family: a statement is of the bus layout when it holds
\* HeaderBlock, and has a summary when it holds the summary block
TripBlocks ==
    {HeaderBlock, <<SummaryLine1500>>, Group5, <<DateLine, AmountLine>>,
     <<DateLine2, StationA, StationAmountLine, AmountLine30>>}

\* what can fail in a document that exists
Faults ==
    {[opens |-> TRUE, text_ok |-> TRUE, struct_ok |-> TRUE, pypdf_ok |-> TRUE],
     [opens |-> FALSE, text_ok |-> TRUE, struct_ok |-> TRUE, pypdf_ok |-> TRUE],
     [opens |-> TRUE, text_ok |-> FALSE, struct_ok |-> TRUE, pypdf_ok |-> TRUE],
     [opens |-> TRUE, text_ok |-> TRUE, struct_ok |-> FALSE, pypdf_ok |-> TRUE],
     [opens |-> TRUE, text_ok |-> TRUE, struct_ok |-> TRUE, pypdf_ok |-> FALSE]}

FaultyPdf(f, blocks, pypdf_text) ==
    [opens |-> f.opens,
     pages |-> <<[text_ok |-> f.text_ok, struct_ok |-> f.struct_ok, blocks |-> blocks]>>,
     pypdf |-> [ok |-> f.pypdf_ok, text |-> pypdf_text]]

\* statements of either layout, with and without a summary, with every fault
FaultyTripDocs ==
    {FaultyPdf(f, blocks, t) : f \in Faults, blocks \in SeqsUpTo(TripBlocks, MaxBlocks),
                               t \in {<<>>, PypdfRecordText, PypdfOtherText}}

TripDocs == BusScanDocs \cup BackToBackDocs \cup FaultyTripDocs

----------------------------------------------------------------------------
(* The documents the two invoice functions start from                      *)

NumberBlocks ==
    {<<NumLabelled>>, <<NumLabelledCredit>>, <<NumLabelled19>>, <<NumShortLabel>>, <<NumNo>>,
     <<NumCredit>>, <<NumTwenty>>, <<NumEighteen>>, <<NumEight>>, <<NumSeven>>}

NumberDocs ==
    {FaultyPdf(f, blocks, <<>>) : f \in {g \in Faults : g.struct_ok /\ g.pypdf_ok},
                                  blocks \in SeqsUpTo(NumberBlocks, MaxFrags)}

TotalBlocks ==
    {<<TotalWords>>, <<TotalWordsOnly>>, <<TotalComma>>, <<AmountLine30>>, <<PlainText>>}

\* an invoice is laid out as blocks, page boundaries and pages that cannot be read
TotalItems ==
    {[kind |-> "block", block |-> b] : b \in TotalBlocks}
        \cup {[kind |-> "break", block |-> <<>>], [kind |-> "bad", block |-> <<>>]}

BadPage == [text_ok |-> FALSE, struct_ok |-> FALSE, blocks |-> <<>>]

RECURSIVE PagesOf(_, _)
PagesOf(items, blocks) ==
    IF items = <<>> THEN <<Page(blocks)>>
    ELSE IF Head(items).kind = "block"
         THEN PagesOf(Tail(items), Append(blocks, Head(items).block))
    ELSE IF Head(items).kind = "break"
         THEN <<Page(blocks)>> \o PagesOf(Tail(items), <<>>)
    ELSE <<Page(blocks), BadPage>> \o PagesOf(Tail(items), <<>>)

TotalDocs == {Unopenable} \cup {Pdf(PagesOf(items, <<>>)) : items \in SeqsUpTo(TotalItems, MaxItems)}

----------------------------------------------------------------------------
(* The directories main starts from                                        *)

\* trip.pdf of a folder: a bus-layout statement; one whose first record has no
\* time line; a statement of the other layout; one with a summary and no record;
\* one that only pypdf can read; one that pypdf cannot read; a missing file
MainTripDocs ==
    {Pdf(<<Page(<<HeaderBlock, Group5, <<SummaryLine1501>>>>)>>),
     BusDoc(<<SeqLine2, DateLine, StationA, StationAmountLine>>),
     Pdf(<<Page(<<Group5, <<SummaryLine3000>>>>)>>),
     Pdf(<<Page(<<<<SummaryLine1500>>>>)>>),
     [opens |-> TRUE, pages |-> <<Page(<<<<SummaryLine3001>>>>)>>,
      pypdf |-> [ok |-> TRUE, text |-> PypdfRecordText]],
     [opens |-> TRUE, pages |-> <<Page(<<<<SummaryLine1500>>>>)>>,
      pypdf |-> [ok |-> FALSE, text |-> <<>>]],
     Unopenable}

\* invoice.pdf of a folder that has one: a good invoice; one with a credit code
\* and no total; one whose second page cannot be read; an unreadable file
MainInvoiceDocs ==
    {Pdf(<<Page(<<<<NumLabelled>>, <<TotalWords>>>>)>>),
     Pdf(<<Page(<<<<NumCredit>>>>)>>),
     Pdf(<<Page(<<<<NumEight>>, <<TotalWords30>>>>), BadPage>>),
     Unopenable}

Folder(name, trip, invoice_exists, invoice) ==
    [name |-> name, is_dir |-> TRUE, trip |-> trip, invoice_exists |-> invoice_exists,
     invoice |-> invoice]

\* what a numeric folder can hold
FoldersNamed(name) ==
    {Folder(name, t, TRUE, v) : t \in MainTripDocs, v \in MainInvoiceDocs}
        \cup {Folder(name, t, FALSE, Unopenable) : t \in MainTripDocs}

\* entries of the root that main does not process: a folder whose name is not a
\* number, and a file whose name is a number
OtherEntries ==
    {[Folder(<<"A">>, Unopenable, FALSE, Unopenable) EXCEPT !.is_dir = TRUE],
     [Folder(<<"7">>, Unopenable, FALSE, Unopenable) EXCEPT !.is_dir = FALSE]}

\* the folders "2" and "10": numeric order is not the order of the names as strings
FolderSets ==
    {{}} \cup {{a} : a \in FoldersNamed(<<"2">>)} \cup {{b} : b \in FoldersNamed(<<"1", "0">>)}
         \cup {{a, b} : a \in FoldersNamed(<<"2">>), b \in FoldersNamed(<<"1", "0">>)}

\* a root that does not exist, and roots that hold the other entries beside the
\* numeric folders
Roots ==
    {[exists |-> FALSE, entries |-> {}]}
        \cup {[exists |-> TRUE, entries |-> fs \cup OtherEntries] : fs \in FolderSets}

----------------------------------------------------------------------------
(* Specifications                                                          *)

\* main not running: a parsing function is called on its own
MainIdle ==
    /\ root = [exists |-> FALSE, entries |-> {}]
    /\ pc = "idle"
    /\ invoice_dirs = <<>>
    /\ k = 0
    /\ parsed_trips = <<>>
    /\ trip_total_summary = 0
    /\ invoice_total = 0
    /\ invoice_number = <<>>
    /\ comparison_results = <<>>
    /\ all_trips = <<>>
    /\ report = NotWritten
    /\ manifest = NotWritten
    /\ message = "none"

\* main at line 258
Init ==
    /\ root \in Roots
    /\ pc = "start"
    /\ invoice_dirs = <<>>
    /\ k = 0
    /\ parsed_trips = <<>>
    /\ trip_total_summary = 0
    /\ invoice_total = 0
    /\ invoice_number = <<>>
    /\ comparison_results = <<>>
    /\ all_trips = <<>>
    /\ report = NotWritten
    /\ manifest = NotWritten
    /\ message = "none"
    /\ frame = IdleFrame

NextNumber == N_open \/ N_read \/ N_close \/ N_match \/ N_except

NextTotal == V_open \/ V_page \/ V_block \/ V_close \/ V_except

NextTrip ==
    \/ T_open \/ T_text \/ T_summary \/ T_lines \/ T_scan
    \/ T_page \/ T_block \/ T_close \/ T_fallback \/ T_except

NextMain ==
    \/ M_start \/ M_loop \/ M_trips \/ M_total \/ M_total_ret
    \/ M_number \/ M_number_ret \/ M_status \/ M_report \/ M_manifest \/ M_final

Next == NextMain \/ NextNumber \/ NextTotal \/ NextTrip

\* the whole program
Spec == Init /\ [][Next]_vars

\* the whole program, which runs on until it exits
FairSpec == Init /\ [][Next]_vars /\ WF_vars(Next)

InitNumber == MainIdle /\ \E pdf \in NumberDocs : frame = Call("number", "N_open", pdf)

\* get_invoice_number_from_pdf on its own
SpecNumber == InitNumber /\ [][NextNumber]_vars

InitTotal == MainIdle /\ \E pdf \in TotalDocs : frame = Call("total", "V_open", pdf)

\* get_total_from_invoice_definitive on its own
SpecTotal == InitTotal /\ [][NextTotal]_vars

InitTrip == MainIdle /\ \E pdf \in TripDocs : frame = Call("trip", "T_open", pdf)

\* get_trip_data_definitive on its own
SpecTrip == InitTrip /\ [][NextTrip]_vars

----------------------------------------------------------------------------
(* What the documents of a call hold, read off the document itself         *)

\* the document opens and page.get_text() works on every page
Readable(pdf) == pdf.opens /\ \A j \in 1..Len(pdf.pages) : pdf.pages[j].text_ok

\* the positions <<page, block>> of the blocks of pdf that satisfy Test
BlocksWhere(pdf, Test(_)) ==
    UNION {{<<p, b>> : b \in {c \in 1..Len(pdf.pages[p].blocks) :
                                  Test(BlockText(pdf.pages[p].blocks[c]))}} :
           p \in 1..Len(pdf.pages)}

\* the first of a set of positions, in page order then block order
FirstPosition(ps) ==
    CHOOSE pb \in ps : \A o \in ps : pb[1] < o[1] \/ (pb[1] = o[1] /\ pb[2] <= o[2])

\* page.get_text("blocks") fails on a page before page p
UnreadableBefore(pdf, p) == \E j \in 1..Len(pdf.pages) : j < p /\ ~pdf.pages[j].struct_ok

MarkerAndAmount(block_text) ==
    HasTotalMarker(block_text) /\ Matched(SearchCommaAmount(block_text))

\* the first comma-grouped amount of the block at position pb, in cents
AmountOfBlock(pdf, pb) ==
    LET block_text == BlockText(pdf.pages[pb[1]].blocks[pb[2]])
    IN  ParseCents(Group(block_text, SearchCommaAmount(block_text)))

\* the total of an invoice: that of the first block with a marker and an amount,
\* provided the document opens and every page up to that block can be read
TotalOfFirstMarkedAmount(pdf) ==
    LET ps == BlocksWhere(pdf, MarkerAndAmount)
    IN  IF ~pdf.opens THEN 0
        ELSE IF ps = {} THEN 0
        ELSE IF UnreadableBefore(pdf, FirstPosition(ps)[1]) THEN 0
        ELSE AmountOfBlock(pdf, FirstPosition(ps))

\* the total of an invoice if the first block with a marker decided alone
TotalOfFirstMarker(pdf) ==
    LET ps == BlocksWhere(pdf, HasTotalMarker)
    IN  IF ps = {} THEN 0
        ELSE IF ~MarkerAndAmount(BlockText(pdf.pages[FirstPosition(ps)[1]].blocks[FirstPosition(ps)[2]]))
             THEN 0
        ELSE AmountOfBlock(pdf, FirstPosition(ps))

\* the invoice number a text decides: the patterns that match, the first of them,
\* its matches that are not credit codes, the first of those
DecidedNumber(text) ==
    LET hits == {p \in Patterns : FindAll(p, text) # <<>>}
        p == CHOOSE q \in hits : \A o \in hits : q <= o
        ms == FindAll(p, text)
        good == {j \in 1..Len(ms) : ~(Len(ms[j]) = 18 /\ SubSeq(ms[j], 1, 2) = <<"9", "1">>)}
    IN  IF hits = {} THEN UnknownInvoiceNumber
        ELSE IF good = {} THEN UnknownInvoiceNumber
        ELSE ms[CHOOSE j \in good : \A o \in good : j <= o]

\* the bus scan from cursor i to the end of the lines
RECURSIVE ScanFrom(_, _, _, _)
ScanFrom(lines, i, trips, station_line1) ==
    IF ~(i < Len(lines)) THEN [raised |-> FALSE, trips |-> trips]
    ELSE LET r == BusStep(lines, i, station_line1)
         IN  IF r.raised THEN [raised |-> TRUE, trips |-> <<>>]
             ELSE ScanFrom(lines, r.i, trips \o r.records, r.station_line1)

\* the records of the blocks of the pages from page p on, other layout
RECURSIVE BlockRecordsFrom(_, _)
BlockRecordsFrom(pdf, p) ==
    IF p > Len(pdf.pages) THEN <<>>
    ELSE LET blocks == pdf.pages[p].blocks
         IN  Concat([b \in 1..Len(blocks) |-> NonBusBlockRecords(BlockText(blocks[b]))])
                 \o BlockRecordsFrom(pdf, p + 1)

\* what get_trip_data_definitive returns for a document: [failed, trips, summary]
TripOutcome(pdf) ==
    LET failure == [failed |-> TRUE, trips |-> <<>>, summary |-> 0]
        text == DocText(pdf)
        scan == ScanFrom(DictLines(pdf), 0, <<>>, Unbound)
        parsed == IF HasBusFormat(text) THEN scan.trips ELSE BlockRecordsFrom(pdf, 1)
    IN  IF ~Readable(pdf) THEN failure
        ELSE IF \E j \in 1..Len(pdf.pages) : ~pdf.pages[j].struct_ok THEN failure
        ELSE IF HasBusFormat(text) /\ scan.raised THEN failure
        ELSE IF parsed # <<>>
             THEN [failed |-> FALSE, trips |-> parsed, summary |-> SummaryTotal(text)]
        ELSE IF ~pdf.pypdf.ok THEN failure
        ELSE [failed |-> FALSE, trips |-> FallbackRecords(pdf.pypdf.text),
              summary |-> SummaryTotal(text)]

\* the entry of a folder holds a number read from its invoice
NumberFound(res) == res.invoice_number \notin {InvoiceNotFound, UnknownInvoiceNumber}

\* the folders main is to process
NumericFolders == {d \in root.entries : d.is_dir /\ IsDigitString(d.name)}

FolderNamed(name) == CHOOSE d \in NumericFolders : d.name = name

\* what a folder alone decides of its entry of comparison_results
FolderOutcome(d) ==
    [dir |-> d.name,
     trip_total |-> TripOutcome(d.trip).summary,
     invoice_total |-> IF d.invoice_exists THEN TotalOfFirstMarkedAmount(d.invoice) ELSE 0,
     invoice_number |-> IF ~d.invoice_exists THEN InvoiceNotFound
                        ELSE IF ~Readable(d.invoice) THEN UnknownInvoiceNumber
                        ELSE DecidedNumber(DocText(d.invoice))]

\* what a folder alone decides of its records of all_trips
FolderTrips(d) ==
    LET t == TripOutcome(d.trip)
    IN  IF t.trips # <<>> THEN t.trips
        ELSE IF t.summary # 0
             THEN <<[date |-> SeeSummary, departure |-> ParseFailedFrom(d.name),
                     destination |-> <<>>, amount |-> t.summary]>>
        ELSE <<>>

\* a document of the folder failed
FolderDegraded(d) ==
    \/ TripOutcome(d.trip).failed
    \/ d.invoice_exists /\ ~Readable(d.invoice)

----------------------------------------------------------------------------
(* C1.  The status of a folder                                             *)

\* C1: every entry of comparison_results has the status "匹配" if and only if its
\* trip-statement summary total and its invoice total, as amounts in cents, differ
\* by less than one cent, and otherwise the status "不匹配" with the signed
\* difference, summary total minus invoice total, to two fraction digits.
C1_StatusIffWithinCent ==
    \A j \in 1..Len(comparison_results) :
        LET res == comparison_results[j]
            d == res.trip_total - res.invoice_total
        IN  res.status = IF Abs(d) < 1 THEN StatusMatched ELSE StatusMismatched(d)

----------------------------------------------------------------------------
(* C2.  main runs to its end                                               *)

\* the state main leaves: both files, one entry per numeric folder in numeric
\* order, each entry and each folder's records what that folder alone decides
MainOutcome ==
    /\ report.written /\ manifest.written
    /\ Len(comparison_results) = Cardinality(NumericFolders)
    /\ \A j \in 1..Len(comparison_results) :
           /\ \E d \in NumericFolders : d.name = comparison_results[j].dir
           /\ \A l \in 1..Len(comparison_results) :
                  j < l => IntOf(comparison_results[j].dir) < IntOf(comparison_results[l].dir)
           /\ LET res == comparison_results[j]
                  d == FolderNamed(res.dir)
              IN  /\ [dir |-> res.dir, trip_total |-> res.trip_total,
                      invoice_total |-> res.invoice_total,
                      invoice_number |-> res.invoice_number] = FolderOutcome(d)
                  /\ TripOutcome(d.trip).failed => res.trip_total = 0
    /\ LET expected == Concat([j \in 1..Len(comparison_results) |->
                                   FolderTrips(FolderNamed(comparison_results[j].dir))])
       IN  /\ Len(all_trips) = Len(expected)
           /\ \A j \in 1..Len(all_trips) : \E l \in 1..Len(expected) : all_trips[j] = expected[l]
           /\ \A l \in 1..Len(expected) : \E j \in 1..Len(all_trips) : all_trips[j] = expected[l]

----------------------------------------------------------------------------
(* C3.  The document handle                                                *)

\* C3: when a parsing function has returned, the document it opened is closed.
C3_HandleClosedOnReturn == frame.pc = "returned" => frame.handle # "open"

----------------------------------------------------------------------------
(* C4.  The summary total of a trip statement                              *)

\* the summary pattern is found in the flat text of the document of the call
SummaryFound == Readable(frame.pdf) /\ Matched(SearchSummary(DocText(frame.pdf)))

FoundAmount ==
    ParseCents(Group(DocText(frame.pdf), SearchSummary(DocText(frame.pdf))))

\* C4 as stated: whenever the summary pattern is found in the flat text,
\* get_trip_data_definitive returns that amount as the summary total, whether
\* the parsing after it yields records, yields none or fails with an error.
C4_SummaryAlwaysReturned ==
    Running("trip", "returned") /\ SummaryFound => frame.ret.summary = FoundAmount

\* C4 amended: whenever the summary pattern is found in the flat text,
\* get_trip_data_definitive returns that amount as the summary total if no error
\* reaches its top-level handler, whether the parsing yields records or none;
\* if an error reaches the handler it returns the empty list and 0.0.
C4_SummaryReturnedUnlessRaised ==
    Running("trip", "returned") /\ SummaryFound =>
        IF frame.warned
        THEN frame.ret.trips = <<>> /\ frame.ret.summary = 0
        ELSE frame.ret.summary = FoundAmount

\* a statement with a summary whose parsing and fallback yielded no record has
\* returned its summary total
C4_Witness ==
    /\ Running("trip", "returned")
    /\ SummaryFound
    /\ ~frame.warned
    /\ frame.handle = "closed"
    /\ frame.ret.trips = <<>>
    /\ frame.ret.summary = 1500

----------------------------------------------------------------------------
(* C5.  The invoice number                                                 *)

\* C5: get_invoice_number_from_pdf returns what the first pattern with a match
\* decides: its first match, in text order, that is not an 18-character string
\* starting with 91, or the sentinel when all its matches are such strings,
\* whatever the later patterns match; the sentinel when no pattern matches (or
\* the text cannot be read); and never an 18-character string starting with 91.
C5_FirstMatchingPatternDecides ==
    Running("number", "returned") =>
        /\ frame.ret.number = IF Readable(frame.pdf) THEN DecidedNumber(DocText(frame.pdf))
                              ELSE UnknownInvoiceNumber
        /\ ~(Len(frame.ret.number) = 18 /\ SubSeq(frame.ret.number, 1, 2) = <<"9", "1">>)

\* the sentinel was returned for a text whose labelled number is a credit code
\* while a lower-priority pattern has a match that is not one
C5_Witness ==
    /\ Running("number", "returned")
    /\ ~frame.warned
    /\ frame.ret.number = UnknownInvoiceNumber
    /\ \E p \in Patterns, q \in Patterns :
           /\ p < q
           /\ \A o \in Patterns : o < p => FindAll(o, frame.text) = <<>>
           /\ FindAll(p, frame.text) # <<>>
           /\ \A j \in 1..Len(FindAll(p, frame.text)) : IsCreditCode(FindAll(p, frame.text)[j])
           /\ \E j \in 1..Len(FindAll(q, frame.text)) : ~IsCreditCode(FindAll(q, frame.text)[j])

----------------------------------------------------------------------------
(* C6.  The total of an invoice                                            *)

\* C6 as stated: for an invoice every page of which can be read,
\* get_total_from_invoice_definitive returns the first comma-grouped amount of
\* the first block that holds a marker, and 0.0 when no block holds one or when
\* that block holds no amount.
C6_FirstMarkerBlockDecides ==
    /\ Running("total", "returned")
    /\ frame.pdf.opens
    /\ \A j \in 1..Len(frame.pdf.pages) : frame.pdf.pages[j].struct_ok
    => frame.ret.total = TotalOfFirstMarker(frame.pdf)

\* C6 amended: get_total_from_invoice_definitive returns the first comma-grouped
\* amount of the first block, in page order then block order, that holds both a
\* marker and such an amount, and 0.0 when no block holds both (or when the
\* document, or a page before that block, cannot be read): a block with a marker
\* and no amount is passed over.
C6_FirstMarkedAmountDecides ==
    Running("total", "returned") => frame.ret.total = TotalOfFirstMarkedAmount(frame.pdf)

\* a total was returned from a block that follows a block with a marker and no amount
C6_Witness ==
    /\ Running("total", "returned")
    /\ frame.ret.total > 0
    /\ BlocksWhere(frame.pdf, HasTotalMarker) # {}
    /\ FirstPosition(BlocksWhere(frame.pdf, HasTotalMarker))
           # FirstPosition(BlocksWhere(frame.pdf, MarkerAndAmount))

----------------------------------------------------------------------------
(* C7.  The manifest                                                       *)

\* C7: the manifest holds, joined by commas in the order of the folders, the
\* invoice numbers of the folders whose number was extracted, and no sentinel.
C7_ManifestHoldsFoundNumbers ==
    manifest.written =>
        LET found == SelectSeq(comparison_results, NumberFound)
        IN  manifest.content = Join([j \in 1..Len(found) |-> found[j].invoice_number], <<",">>)

----------------------------------------------------------------------------
(* C8 and C9.  One iteration of the bus-layout scan                        *)

\* line j of the lines under scan, counted from the cursor
LineAt(j) == frame.full_text_lines[frame.i + j + 1]

\* an iteration of the scan is about to run
Scanning == Running("trip", "T_scan") /\ frame.i < Len(frame.full_text_lines)

\* sequence line, date line, time-range line at the cursor
HeadOfRecord ==
    /\ frame.i + 2 < Len(frame.full_text_lines)
    /\ IsSequenceLine(LineAt(0))
    /\ Matched(SearchDate(LineAt(1)))
    /\ SearchTimeRange(LineAt(2))

\* ... then one station line and the amount line
FiveLineRecord ==
    /\ HeadOfRecord
    /\ frame.i + 4 < Len(frame.full_text_lines)
    /\ HasAmount(LineAt(4))

\* ... then two station lines and the amount line
SixLineRecord ==
    /\ HeadOfRecord
    /\ frame.i + 5 < Len(frame.full_text_lines)
    /\ ~HasAmount(LineAt(4))
    /\ HasAmount(LineAt(5))

\* sequence line, date line, a line that is no time range, a line with an amount
FourLineRecord ==
    /\ frame.i + 3 < Len(frame.full_text_lines)
    /\ IsSequenceLine(LineAt(0))
    /\ Matched(SearchDate(LineAt(1)))
    /\ ~SearchTimeRange(LineAt(2))
    /\ HasAmount(LineAt(3))

\* no record can start at the cursor: no sequence line, or no date line after it
NoRecord ==
    \/ ~IsSequenceLine(LineAt(0))
    \/ ~(frame.i + 1 < Len(frame.full_text_lines))
    \/ ~Matched(SearchDate(LineAt(1)))

\* the record of the date line after the cursor, a departure and an amount line
RecordOf(departure, amount_line) ==
    [date |-> Group(LineAt(1), SearchDate(LineAt(1))),
     departure |-> departure,
     destination |-> <<>>,
     amount |-> ParseCents(Group(amount_line, SearchAmount(amount_line)))]

\* the iteration appends the record and moves the cursor by n lines
Emits(record, n) ==
    /\ frame'.pc = "T_scan"
    /\ frame'.trips = Append(frame.trips, record)
    /\ frame'.i = frame.i + n

\* the groups a statement is made of have one record each
RecordOfGroup(g) ==
    IF g = Group5
    THEN [date |-> DateLine, departure |-> StationA, destination |-> <<>>, amount |-> 1500]
    ELSE [date |-> DateLine2, departure |-> StationA \o StationB, destination |-> <<>>,
          amount |-> 3000]

\* C8: an iteration of the scan at a five-line record appends exactly one record,
\* with the date of the date line, the station line as departure and the amount
\* of the amount line, and moves the cursor by 5; at a six-line record it appends
\* one record whose departure is the two station lines concatenated and moves
\* the cursor by 6; and the scan of a statement made of such groups back to
\* back ends with exactly one record per group, in the order of the groups.
C8_BusRecords ==
    [][/\ Scanning /\ FiveLineRecord => Emits(RecordOf(LineAt(3), LineAt(4)), 5)
       /\ Scanning /\ SixLineRecord => Emits(RecordOf(LineAt(3) \o LineAt(4), LineAt(5)), 6)
       /\ \A gs \in SeqsUpTo(Groups, MaxGroups) :
              /\ Running("trip", "T_scan")
              /\ frame.pdf = BusDoc(Concat(gs))
              /\ frame'.pc # "T_scan"
              => /\ frame'.pc = "T_close"
                 /\ frame'.trips = [j \in 1..Len(gs) |-> RecordOfGroup(gs[j])]
      ]_vars

\* the scan of a five-line group, a six-line group and a five-line group has ended
\* with three records
C8_Witness ==
    /\ Running("trip", "T_close")
    /\ frame.pdf = BusDoc(Group5 \o Group6 \o Group5)
    /\ Len(frame.trips) = 3
    /\ frame.i = Len(frame.full_text_lines)

\* C9: an iteration of the scan at a sequence line, a date line, a line that is
\* no time range and a line with an amount appends exactly one record, built
\* from these lines (the date of the date line, the amount of the line with the
\* amount, that line without its trailing amount as departure), and moves the
\* cursor by 4; an iteration where no record can start moves the cursor by 1
\* and appends nothing; at every cursor, the first record of a document included.
C9_FourLineRecord ==
    [][/\ Scanning /\ FourLineRecord
          => Emits(RecordOf(Strip(StripTrailingAmount(LineAt(3))), LineAt(3)), 4)
       /\ Scanning /\ NoRecord
          => /\ frame'.pc = "T_scan"
             /\ frame'.trips = frame.trips
             /\ frame'.i = frame.i + 1
      ]_vars

----------------------------------------------------------------------------
(* C10.  What a folder adds to all_trips                                   *)

\* C10: when main takes the result of get_trip_data_definitive for a folder, it
\* appends to all_trips all the records returned and nothing else if there are
\* any; else, if the summary total returned is not zero, exactly one record whose
\* amount is that total and whose date is "见摘要"; else nothing.  So a folder
\* without records adds to the sum of all_trips the summary total that its entry
\* of comparison_results then holds.
C10_GrowthOfAllTrips ==
    [][/\ (pc = "trips" /\ pc' = "total") =>
              LET trips == frame.ret.trips
                  summary == frame.ret.summary
              IN  /\ trips # <<>> => all_trips' = all_trips \o trips
                  /\ trips = <<>> /\ summary # 0 =>
                         /\ Len(all_trips') = Len(all_trips) + 1
                         /\ SubSeq(all_trips', 1, Len(all_trips)) = all_trips
                         /\ all_trips'[Len(all_trips')].date = SeeSummary
                         /\ all_trips'[Len(all_trips')].amount = summary
                  /\ trips = <<>> /\ summary = 0 => all_trips' = all_trips
                  /\ trips = <<>> =>
                         SumOf(all_trips', "amount") - SumOf(all_trips, "amount")
                             = trip_total_summary'
       /\ (pc = "status" /\ pc' = "loop") =>
              comparison_results'[Len(comparison_results')].trip_total = trip_total_summary
      ]_vars

\* a folder whose statement has a summary and no record has added its placeholder
C10_Witness ==
    /\ pc = "total"
    /\ parsed_trips = <<>>
    /\ trip_total_summary > 0
    /\ all_trips # <<>>
    /\ all_trips[Len(all_trips)].date = SeeSummary
    /\ all_trips[Len(all_trips)].amount = trip_total_summary

====
